---- MODULE Spec2Model ----
(***************************************************************************)
(* Model of krisp's orchestration (src/src/krisp/krisp.py): main builds    *)
(* one temporary k-mer file name per input file, extracts and sorts the    *)
(* k-mers of every file either serially (sortedKmersSerial) or with a      *)
(* multiprocessing queue and worker processes (sortedKmersParallel,        *)
(* sortedKmerJob), and then merges, filters and renders.                   *)
(***************************************************************************)
EXTENDS Integers, Sequences, FiniteSets, TLC

\* ---------------------------------------------------------------- bounds
MaxFiles == 3          \* most input files of a scheduler run
MaxParallel == 5       \* largest --parallel value
MaxPathFiles == 3      \* most input files when only the names are built
MaxNames == 2          \* distinct file names per directory
MaxManyFiles == 82     \* most input files when only the queue is filled
MaxLen == 4            \* largest length given on the command line

Dirs == {"a", "b"}
Amplicons == {2, 3}
TmpDir == "tmp"

\* A Python tuple is a sequence; None is modelled as the empty tuple.
None == <<>>

VARIABLES
    caller,            \* "main", or "api" for a direct call of sortedKmersParallel
    args_files,        \* args.files
    args_outgroup,     \* args.outgroup
    args_parallel,     \* args.parallel / the parameter parallel
    opts,              \* args: the five length options, None or an int each
    amplicon,          \* args.amplicon
    diagnostic,        \* args.diagnostic
    conserved_left,    \* args.conserved_left
    conserved_right,   \* args.conserved_right
    pc,                \* position of the main process
    kmer_files,        \* main: kmer_files / the parameter outputs
    job_cores,         \* sortedKmersParallel: job_cores
    sortmem,           \* sortedKmersParallel: sortmem
    job_queue,         \* items waiting in the multiprocessing.Queue
    nput,              \* number of items put on the queue so far
    processes,         \* sortedKmersParallel: processes (worker ids)
    joined,            \* number of processes already joined
    wpc,               \* per worker: "none", "get", "run", "exited", "crashed"
    wjob,              \* per worker: the queue item it is running
    delivered,         \* per queue item (by put order): number of get() calls that returned it
    started,           \* per file: number of extractSortedKmers calls
    completed,         \* files whose extractSortedKmers call returned
    failed,            \* files whose extractSortedKmers call raised
    serial_i,          \* sortedKmersSerial: loop index
    result             \* main: result

vars == <<caller, args_files, args_outgroup, args_parallel, opts, amplicon,
          diagnostic, conserved_left, conserved_right, pc, kmer_files, job_cores,
          sortmem, job_queue, nput, processes, joined, wpc, wjob,
          delivered, started, completed, failed, serial_i, result>>

\* ------------------------------------------------------- pure helpers
Min(a, b) == IF a < b THEN a ELSE b

RECURSIVE SumSeq(_)
SumSeq(s) == IF s = <<>> THEN 0 ELSE Head(s) + SumSeq(Tail(s))

\* pathlib: Path(filename).name is the final path component.
PathName(filename) == filename.name

\* main, lines 263-264.  shared.basename is a pure function of
\* Path(filename).name, so the name depends on the input path only through
\* its final component; the component itself stands for basename's result.
KmerName(filename, ampl) ==
    [dir |-> TmpDir, base |-> PathName(filename), suffix |-> <<ampl, "mers">>]

\* main, line 260
InputFiles == args_files \o args_outgroup

JobCoresOffByOne(files, parallel) ==
    LET jobs == Len(files)
    IN  IF parallel < jobs
        THEN [i \in 1..jobs |-> 1]
        ELSE [i \in 1..jobs |->
                (parallel \div jobs)
                + (IF (i - 1) <= parallel % jobs THEN 1 ELSE 0)]

JobCoresWholeBudget(files, parallel) ==
    LET jobs == Len(files)
    IN  IF parallel < jobs
        THEN [i \in 1..jobs |-> 1]
        ELSE [i \in 1..jobs |-> parallel]

JobCoresNoExtra(files, parallel) ==
    LET jobs == Len(files)
    IN  IF parallel < jobs
        THEN [i \in 1..jobs |-> 1]
        ELSE [i \in 1..jobs |-> parallel \div jobs]

\* sortedKmersParallel, lines 90-97 (enumerate is 0-based: i - 1)
JobCores(files, parallel) ==
    LET jobs == Len(files)
    IN  IF parallel < jobs
        THEN [i \in 1..jobs |-> 1]
        ELSE [i \in 1..jobs |->
                (parallel \div jobs)
                + (IF (i - 1) < parallel % jobs THEN 1 ELSE 0)]

SortMemUndivided(cores) == <<80, "%">>

SortMemPerActive(cores) == <<80 \div Min(Len(cores), args_parallel), "%">>

\* sortedKmersParallel, line 101: f"{80//len(job_cores)}%"
SortMem(cores) == <<80 \div Len(cores), "%">>

\* sortedKmersParallel, lines 104-105 (verbose and omit are passed through
\* unchanged and left out)
JobArgs(filename, outfile, cores) ==
    <<filename, conserved_left, conserved_right, amplicon, outfile,
      sortmem, cores>>

\* An optional int of argparse: None is <<>>, the int v is <<v>>.
IsNone(x) == x = <<>>
Val(x) == x[1]

\* main, lines 206-240 on the namespace o: exit is TRUE where main calls
\* sys.exit(1), otherwise ns is the namespace after the assignments
DeriveArgs(o) ==
    IF ~IsNone(o.amplicon)
    THEN IF ~IsNone(o.diagnostic)
         THEN LET c == (Val(o.amplicon) - Val(o.diagnostic)) \div 2
              IN  [exit |-> FALSE,
                   ns |-> [o EXCEPT !.conserved = <<c>>,
                                    !.conserved_left = <<c>>,
                                    !.conserved_right = <<c>>]]
         ELSE IF ~IsNone(o.conserved)
         THEN [exit |-> FALSE,
               ns |-> [o EXCEPT !.diagnostic =
                                    <<Val(o.amplicon) - 2 * Val(o.conserved)>>,
                                !.conserved_left = o.conserved,
                                !.conserved_right = o.conserved]]
         ELSE IF ~IsNone(o.conserved_left) /\ ~IsNone(o.conserved_right)
         THEN [exit |-> FALSE,
               ns |-> [o EXCEPT !.diagnostic =
                                    <<Val(o.amplicon) - Val(o.conserved_left)
                                      - Val(o.conserved_right)>>]]
         ELSE [exit |-> TRUE, ns |-> o]
    ELSE IF ~IsNone(o.diagnostic)
    THEN IF ~IsNone(o.conserved)
         THEN [exit |-> FALSE,
               ns |-> [o EXCEPT !.amplicon =
                                    <<Val(o.diagnostic) + 2 * Val(o.conserved)>>,
                                !.conserved_left = o.conserved,
                                !.conserved_right = o.conserved]]
         ELSE IF ~IsNone(o.conserved_left) /\ ~IsNone(o.conserved_right)
         THEN [exit |-> FALSE,
               ns |-> [o EXCEPT !.amplicon =
                                    <<Val(o.diagnostic) + Val(o.conserved_left)
                                      + Val(o.conserved_right)>>]]
         ELSE [exit |-> TRUE, ns |-> o]
    ELSE [exit |-> TRUE, ns |-> o]

\* sortedKmersSerial, lines 82-83: the arguments of extractSortedKmers
SerialArgs(filename, outfile) ==
    <<filename, conserved_left, conserved_right, amplicon, outfile,
      <<80, "%">>, 1>>

\* ---------------------------------------------------------- initial states
\* State before main reaches line 259, or before a direct call of
\* sortedKmersParallel; fs and og are args.files and args.outgroup.
Start(c, fs, og, p, a) ==
    /\ caller = c
    /\ args_files = fs
    /\ args_outgroup = og
    /\ args_parallel = p
    /\ opts = [amplicon |-> <<a>>, diagnostic |-> <<a - 2>>,
               conserved |-> <<1>>, conserved_left |-> <<1>>,
               conserved_right |-> <<1>>]
    /\ amplicon = a
    /\ diagnostic = a - 2
    /\ conserved_left = 1
    /\ conserved_right = 1
    /\ pc = IF c = "main" THEN "kmer_names" ELSE "cores"
    /\ kmer_files = IF c = "main" THEN <<>>
                    ELSE [i \in 1..Len(fs \o og) |-> KmerName((fs \o og)[i], a)]
    /\ job_cores = <<>>
    /\ sortmem = <<0, "%">>
    /\ job_queue = <<>>
    /\ nput = 0
    /\ processes = <<>>
    /\ joined = 0
    /\ wpc = [w \in 1..p |-> "none"]
    /\ wjob = [w \in 1..p |-> [seq |-> 0, args |-> None]]
    /\ delivered = <<>>
    /\ started = [i \in 1..Len(fs \o og) |-> 0]
    /\ completed = {}
    /\ failed = {}
    /\ serial_i = 0
    /\ result = "none"

\* n distinct input files
DistinctFiles(n) == [i \in 1..n |-> [dir |-> "a", name |-> i]]

Init ==
    \E c \in {"main", "api"}, n \in 1..MaxFiles, p \in 1..MaxParallel,
       a \in Amplicons :
        Start(c, DistinctFiles(n), <<>>, p, a)

Paths == [dir : Dirs, name : 1..MaxNames]

\* lists of at most n paths that name no path twice
PathLists(n) ==
    {l \in UNION {[1..k -> Paths] : k \in 0..n} :
        \A i, j \in DOMAIN l : i # j => l[i] # l[j]}

InitPaths ==
    \E fs \in PathLists(MaxPathFiles), og \in PathLists(MaxPathFiles),
       a \in Amplicons :
        /\ Len(fs) >= 1
        /\ Len(fs) + Len(og) <= MaxPathFiles
        /\ Start("main", fs, og, 1, a)

\* values of --amplicon, --diagnostic, --conserved, --conserved-left and
\* --conserved-right: absent, or a length
OptValues == {<<>>} \cup {<<v>> : v \in 0..MaxLen}

\* State right after parse_args (line 203) of a run on one input file
InitArgs ==
    \E o \in [amplicon : OptValues, diagnostic : OptValues,
               conserved : OptValues, conserved_left : OptValues,
               conserved_right : OptValues],
       p \in {1, 2} :
        /\ caller = "main"
        /\ args_files = DistinctFiles(1)
        /\ args_outgroup = <<>>
        /\ args_parallel = p
        /\ opts = o
        /\ amplicon = 0
        /\ diagnostic = 0
        /\ conserved_left = 0
        /\ conserved_right = 0
        /\ pc = "parse"
        /\ kmer_files = <<>>
        /\ job_cores = <<>>
        /\ sortmem = <<0, "%">>
        /\ job_queue = <<>>
        /\ nput = 0
        /\ processes = <<>>
        /\ joined = 0
        /\ wpc = [w \in 1..p |-> "none"]
        /\ wjob = [w \in 1..p |-> [seq |-> 0, args |-> None]]
        /\ delivered = <<>>
        /\ started = [i \in 1..1 |-> 0]
        /\ completed = {}
        /\ failed = {}
        /\ serial_i = 0
        /\ result = "none"

\* direct calls of sortedKmersParallel with long lists of files
InitMany ==
    \E n \in 1..MaxManyFiles, p \in {1, 2}, a \in Amplicons :
        Start("api", DistinctFiles(n), <<>>, p, a)

\* ------------------------------------------------------------------- main
sched == <<job_cores, sortmem, job_queue, nput, processes, joined, wpc, wjob,
           delivered, started, completed, failed, serial_i>>
inputs == <<caller, args_files, args_outgroup, args_parallel, opts, amplicon,
            diagnostic, conserved_left, conserved_right>>

\* main, lines 205-240: the lengths are deduced from the options given, or
\* main prints the error and exits
DeriveParameters ==
    /\ pc = "parse"
    /\ LET r == DeriveArgs(opts)
       IN  IF r.exit
           THEN /\ pc' = "exit"
                /\ UNCHANGED <<opts, amplicon, diagnostic, conserved_left,
                               conserved_right>>
           ELSE /\ pc' = "kmer_names"
                /\ opts' = r.ns
                /\ amplicon' = Val(r.ns.amplicon)
                /\ diagnostic' = Val(r.ns.diagnostic)
                /\ conserved_left' = Val(r.ns.conserved_left)
                /\ conserved_right' = Val(r.ns.conserved_right)
    /\ UNCHANGED <<caller, args_files, args_outgroup, args_parallel,
                   kmer_files, result, sched>>

\* main, line 287: the test that guards filterAlignments
DiagnosticNonEmptyOrEqual == amplicon >= conserved_left + conserved_right

DiagnosticNonEmpty == amplicon > conserved_left + conserved_right

\* main, lines 262-265: one iteration of the loop
BuildKmerName ==
    /\ pc = "kmer_names"
    /\ Len(kmer_files) < Len(InputFiles)
    /\ kmer_files' = Append(kmer_files,
                            KmerName(InputFiles[Len(kmer_files) + 1], amplicon))
    /\ UNCHANGED <<pc, result, sched, inputs>>

\* main, lines 268-275: choice of the scheduler
GetSortedKmers ==
    /\ pc = "kmer_names"
    /\ Len(kmer_files) = Len(InputFiles)
    /\ IF args_parallel > 1
       THEN pc' = "cores" /\ UNCHANGED serial_i
       ELSE pc' = "serial" /\ serial_i' = 1
    /\ UNCHANGED <<kmer_files, result, inputs, job_cores, sortmem, job_queue,
                   nput, processes, joined, wpc, wjob, delivered, started,
                   completed, failed>>

\* main, lines 278-279
MergeFiles ==
    /\ pc = "returned"
    /\ caller = "main"
    /\ result' = "merged_file.txt"
    /\ pc' = "merged"
    /\ UNCHANGED <<kmer_files, sched, inputs>>

\* main, lines 287-294
FilterAlignments ==
    /\ pc = "merged"
    /\ DiagnosticNonEmpty
    /\ result' = "filtered.txt"
    /\ pc' = "filtered"
    /\ UNCHANGED <<kmer_files, sched, inputs>>

\* main, lines 297-307
RenderOutput ==
    /\ \/ pc = "filtered"
       \/ pc = "merged" /\ ~DiagnosticNonEmpty
    /\ pc' = "done"
    /\ UNCHANGED <<kmer_files, result, sched, inputs>>

\* ------------------------------------------------------ sortedKmersSerial
\* lines 80-83: extractSortedKmers is called for the next file
SerialStart ==
    /\ pc = "serial"
    /\ started' = [started EXCEPT ![serial_i] = @ + 1]
    /\ pc' = "serial_run"
    /\ UNCHANGED <<kmer_files, result, inputs, job_cores, sortmem, job_queue,
                   nput, processes, joined, wpc, wjob, delivered, completed,
                   failed, serial_i>>

\* the call returns; the loop goes on or the function returns
SerialFinish ==
    /\ pc = "serial_run"
    /\ completed' = completed \cup {serial_i}
    /\ serial_i' = serial_i + 1
    /\ pc' = IF serial_i + 1 > Len(InputFiles) THEN "returned" ELSE "serial"
    /\ UNCHANGED <<kmer_files, result, inputs, job_cores, sortmem, job_queue,
                   nput, processes, joined, wpc, wjob, delivered, started,
                   failed>>

\* the call raises: nothing catches the exception and main is left
SerialRaise ==
    /\ pc = "serial_run"
    /\ failed' = failed \cup {serial_i}
    /\ pc' = "aborted"
    /\ UNCHANGED <<kmer_files, result, inputs, job_cores, sortmem, job_queue,
                   nput, processes, joined, wpc, wjob, delivered, started,
                   completed, serial_i>>

\* ---------------------------------------------------- sortedKmersParallel
\* lines 90-97
ComputeJobCores ==
    /\ pc = "cores"
    /\ job_cores' = JobCores(InputFiles, args_parallel)
    /\ pc' = "queue"
    /\ UNCHANGED <<kmer_files, result, inputs, sortmem, job_queue, nput,
                   processes, joined, wpc, wjob, delivered, started,
                   completed, failed, serial_i>>

\* lines 100-101
CreateQueue ==
    /\ pc = "queue"
    /\ job_queue' = <<>>
    /\ sortmem' = SortMem(job_cores)
    /\ pc' = "put_jobs"
    /\ UNCHANGED <<kmer_files, result, inputs, job_cores, nput, processes,
                   joined, wpc, wjob, delivered, started, completed, failed,
                   serial_i>>

\* number of iterations of zip(files, outputs, job_cores), line 102
ZipLen == Min(Len(InputFiles), Min(Len(kmer_files), Len(job_cores)))

\* number of end signals, line 108: range(jobs)
EndSignals == Len(InputFiles)

PutAtHead(args) ==
    /\ job_queue' = <<[seq |-> nput + 1, args |-> args]>> \o job_queue
    /\ nput' = nput + 1
    /\ delivered' = Append(delivered, 0)

\* multiprocessing.Queue.put: the item joins the tail of the queue
Put(args) ==
    /\ job_queue' = Append(job_queue, [seq |-> nput + 1, args |-> args])
    /\ nput' = nput + 1
    /\ delivered' = Append(delivered, 0)

\* lines 102-107: one iteration
PutJob ==
    /\ pc = "put_jobs"
    /\ LET i == nput + 1
       IN  Put(JobArgs(InputFiles[i], kmer_files[i], job_cores[i]))
    /\ pc' = IF nput + 1 = ZipLen THEN "put_none" ELSE "put_jobs"
    /\ UNCHANGED <<kmer_files, result, inputs, job_cores, sortmem, processes,
                   joined, wpc, wjob, started, completed, failed, serial_i>>

\* lines 108-110: one iteration
PutNone ==
    /\ pc = "put_none"
    /\ Put(None)
    /\ pc' = IF nput + 1 = ZipLen + EndSignals THEN "spawn" ELSE "put_none"
    /\ UNCHANGED <<kmer_files, result, inputs, job_cores, sortmem, processes,
                   joined, wpc, wjob, started, completed, failed, serial_i>>

\* lines 114-119: one iteration; the new process starts at line 71
SpawnProcess ==
    /\ pc = "spawn"
    /\ LET p == Len(processes) + 1
       IN  /\ wpc' = [wpc EXCEPT ![p] = "get"]
           /\ processes' = Append(processes, p)
           /\ pc' = IF p = args_parallel THEN "join" ELSE "spawn"
    /\ UNCHANGED <<kmer_files, result, inputs, job_cores, sortmem, job_queue,
                   nput, joined, wjob, delivered, started, completed, failed,
                   serial_i>>

\* lines 122-123: p.join() returns once process p has ended, however it ended
JoinProcess ==
    /\ pc = "join"
    /\ wpc[processes[joined + 1]] \in {"exited", "crashed"}
    /\ joined' = joined + 1
    /\ pc' = IF joined + 1 = Len(processes) THEN "returned" ELSE "join"
    /\ UNCHANGED <<kmer_files, result, inputs, job_cores, sortmem, job_queue,
                   nput, processes, wpc, wjob, delivered, started, completed,
                   failed, serial_i>>

\* ---------------------------------------------------------- sortedKmerJob
\* What input_queue.get() hands out and what it leaves in the queue:
\* the head is removed.
GetItem(q) == Head(q)

GetRestKeepsHead(q) == q

GetRest(q) == Tail(q)

\* lines 71-72 and 75: get blocks while the queue is empty; None ends the
\* loop and the process, any other item starts extractSortedKmers(*args)
WorkerGet(w) ==
    /\ w \in DOMAIN wpc
    /\ wpc[w] = "get"
    /\ job_queue # <<>>
    /\ LET item == GetItem(job_queue)
       IN  /\ job_queue' = GetRest(job_queue)
           /\ delivered' = [delivered EXCEPT ![item.seq] = @ + 1]
           /\ IF item.args = None
              THEN /\ wpc' = [wpc EXCEPT ![w] = "exited"]
                   /\ UNCHANGED <<wjob, started>>
              ELSE /\ wpc' = [wpc EXCEPT ![w] = "run"]
                   /\ wjob' = [wjob EXCEPT ![w] = item]
                   /\ started' = [started EXCEPT ![item.seq] = @ + 1]
    /\ UNCHANGED <<pc, kmer_files, result, inputs, job_cores, sortmem, nput,
                   processes, joined, completed, failed, serial_i>>

\* line 74 returns: back to get at line 75
WorkerFinish(w) ==
    /\ w \in DOMAIN wpc
    /\ wpc[w] = "run"
    /\ completed' = completed \cup {wjob[w].seq}
    /\ wpc' = [wpc EXCEPT ![w] = "get"]
    /\ UNCHANGED <<pc, kmer_files, result, inputs, job_cores, sortmem,
                   job_queue, nput, processes, joined, wjob, delivered,
                   started, failed, serial_i>>

\* line 74 raises: nothing in sortedKmerJob catches it, the process ends
\* with the traceback and a non-zero exit code that nobody reads
WorkerRaise(w) ==
    /\ w \in DOMAIN wpc
    /\ wpc[w] = "run"
    /\ failed' = failed \cup {wjob[w].seq}
    /\ wpc' = [wpc EXCEPT ![w] = "crashed"]
    /\ UNCHANGED <<pc, kmer_files, result, inputs, job_cores, sortmem,
                   job_queue, nput, processes, joined, wjob, delivered,
                   started, completed, serial_i>>

\* ---------------------------------------------------------- specifications
MainStep ==
    \/ BuildKmerName
    \/ GetSortedKmers
    \/ SerialStart
    \/ SerialFinish
    \/ SerialRaise
    \/ ComputeJobCores
    \/ CreateQueue
    \/ PutJob
    \/ PutNone
    \/ SpawnProcess
    \/ JoinProcess
    \/ MergeFiles
    \/ FilterAlignments
    \/ RenderOutput

Next ==
    \/ MainStep
    \/ \E w \in 1..MaxParallel : WorkerGet(w)
    \/ \E w \in 1..MaxParallel : WorkerFinish(w)
    \/ \E w \in 1..MaxParallel : WorkerRaise(w)

Spec == Init /\ [][Next]_vars

\* Every process that can take a step eventually takes one.
Fairness ==
    /\ WF_vars(MainStep)
    /\ \A w \in 1..MaxParallel :
        /\ WF_vars(WorkerGet(w))
        /\ WF_vars(WorkerFinish(w) \/ WorkerRaise(w))

FairSpec == Init /\ [][Next]_vars /\ Fairness

\* main up to line 265, for the lists of ingroup and outgroup paths (a path
\* may be in both groups)
NextPaths == BuildKmerName

SpecPaths == InitPaths /\ [][NextPaths]_vars

\* sortedKmersParallel up to line 107: allocation, sortmem and job tuples
NextMany ==
    \/ ComputeJobCores
    \/ CreateQueue
    \/ PutJob

SpecMany == InitMany /\ [][NextMany]_vars

\* main from line 205 on, for every combination of the length options
NextArgs ==
    \/ DeriveParameters
    \/ Next

SpecArgs == InitArgs /\ [][NextArgs]_vars

TypeOK ==
    /\ pc \in {"parse", "exit", "kmer_names", "serial", "serial_run", "cores", "queue",
               "put_jobs", "put_none", "spawn", "join", "returned", "merged",
               "filtered", "done", "aborted"}
    /\ \A w \in DOMAIN wpc : wpc[w] \in {"none", "get", "run", "exited", "crashed"}

\* ------------------------------------------------------ derived predicates
NFiles == Len(InputFiles)
FileIds == 1..NFiles

\* the scheduler (serial or parallel) has returned to its caller
SchedulerReturned == pc \in {"returned", "merged", "filtered", "done"}

\* mergeFiles has been called
MergeStarted == pc \in {"merged", "filtered", "done"}

\* sortedKmersParallel has computed job_cores / has set sortmem
CoresComputed == job_cores # <<>>
SortmemSet == CoresComputed /\ pc # "queue"

\* every process of range(parallel) has been started
AllSpawned == Len(processes) = args_parallel /\ pc # "spawn"

\* end signals put on the queue so far
SentinelsPut ==
    IF pc \in {"kmer_names", "serial", "serial_run", "cores", "queue", "put_jobs"}
    THEN 0 ELSE nput - ZipLen

\* real jobs still waiting in the queue
WaitingJobs == {k \in 1..Len(job_queue) : job_queue[k].args # None}

\* how many queue entries carry put number n
InQueue(n) == Cardinality({k \in 1..Len(job_queue) : job_queue[k].seq = n})

Running == {w \in DOMAIN wpc : wpc[w] = "run"}
Alive == {w \in DOMAIN wpc : wpc[w] \in {"get", "run"}}

\* the percentage of a sortmem value / of the sortmem argument of a job
Percent(mem) == mem[1]

RECURSIVE SumOver(_, _)
SumOver(S, f) ==
    IF S = {} THEN 0
    ELSE LET w == CHOOSE v \in S : TRUE
         IN  f[w] + SumOver(S \ {w}, f)

\* sortmem percentages of the extractSortedKmers calls running now
RunningMemory ==
    SumOver(Running, [w \in Running |-> Percent(wjob[w].args[6])])
    + (IF pc = "serial_run"
       THEN Percent(SerialArgs(InputFiles[serial_i], kmer_files[serial_i])[6])
       ELSE 0)

\* core allocations of the extractSortedKmers calls the workers run now
RunningCores == SumOver(Running, [w \in Running |-> wjob[w].args[7]])

\* main is past the derivation of the lengths and did not exit there
Derived == pc \notin {"parse", "exit"}

\* extractSortedKmers has been called for some file
JobStarted == \E i \in DOMAIN started : started[i] > 0

\* ----------------------------------------------------------------- claims

\* C1: when main uses the parallel scheduler (P >= 2) and no job fails,
\* every spawned worker eventually gets an end signal and exits, and the
\* join loop of sortedKmersParallel returns.
C1_WorkersExitAndJoinReturns ==
    <>(\/ args_parallel < 2
       \/ failed # {}
       \/ SchedulerReturned /\ \A w \in DOMAIN wpc : wpc[w] = "exited")

\* C2: the number of end signals put on the queue equals the number of
\* worker processes spawned to read from it.
C2_SentinelPerWorker ==
    (AllSpawned /\ args_parallel >= 1) => SentinelsPut = Len(processes)

C4_Barrier ==
    /\ MergeStarted => (Alive = {} /\ WaitingJobs = {})
    /\ (SchedulerReturned /\ failed = {}) => completed = FileIds

\* C5: if an extract+sort job fails, mergeFiles, filterAlignments and
\* render_output are never executed.
C5_FailureAbortsRun == failed # {} => ~MergeStarted

\* C6: whatever jobs fail, every other file's job is started and run to
\* its end before the scheduler returns or raises.
C6_SiblingsStillRun ==
    (SchedulerReturned \/ pc = "aborted") =>
        \A i \in FileIds : i \in completed \cup failed

\* C7: the per-file output paths built in main are pairwise distinct.
C7_OutputsDistinct ==
    Len(kmer_files) = NFiles =>
        \A i, j \in 1..Len(kmer_files) : i # j => kmer_files[i] # kmer_files[j]

\* C8: if P < N every file gets 1 core; if P >= N file i (0-based) gets
\* P // N cores plus one when i < P % N; allocations differ by at most 1
\* and every file gets at least 1 core.
C8_CoreAllocationRule ==
    CoresComputed =>
        /\ Len(job_cores) = NFiles
        /\ args_parallel < NFiles => \A i \in FileIds : job_cores[i] = 1
        /\ args_parallel >= NFiles =>
            \A i \in FileIds :
                /\ (i - 1 < args_parallel % NFiles) =>
                        job_cores[i] = (args_parallel \div NFiles) + 1
                /\ ~(i - 1 < args_parallel % NFiles) =>
                        job_cores[i] = args_parallel \div NFiles
        /\ \A i, j \in FileIds : job_cores[i] - job_cores[j] <= 1
        /\ \A i \in FileIds : job_cores[i] >= 1

C8_FiveCoresTwoFiles ==
    /\ NFiles = 2
    /\ args_parallel = 5
    /\ job_cores = <<3, 2>>

\* C9 as stated: for every N >= 1 and P >= 1 the allocations sum to at
\* most P.
C9_SumAtMostBudget ==
    CoresComputed => SumSeq(job_cores) <= args_parallel

\* C9 amended: when P >= N the allocations sum to at most P (to exactly P);
\* when P < N every file still gets 1 core, so they sum to N.
C9_SumAtMostBudgetWhenEnoughCores ==
    CoresComputed =>
        /\ args_parallel >= NFiles =>
            /\ SumSeq(job_cores) <= args_parallel
            /\ SumSeq(job_cores) = args_parallel
        /\ args_parallel < NFiles => SumSeq(job_cores) = NFiles

C9_RemainderSpread ==
    /\ NFiles = 3
    /\ args_parallel = 5
    /\ CoresComputed
    /\ SumSeq(job_cores) = 5

\* C10 as stated: sortmem is 80% divided by min(N, P).
C10_SortmemPerActiveJob ==
    SortmemSet => sortmem = <<80 \div Min(NFiles, args_parallel), "%">>

\* C10 amended: sortmem is the integer percentage 80 // N of the number of
\* input files N, whatever P is, and every job is handed that value.
C10_SortmemPerFile ==
    SortmemSet =>
        /\ sortmem = <<80 \div NFiles, "%">>
        /\ \A k \in WaitingJobs : job_queue[k].args[6] = <<80 \div NFiles, "%">>
        /\ \A w \in Running : wjob[w].args[6] = <<80 \div NFiles, "%">>

C10_ThreeFilesTwoWorkers ==
    /\ NFiles = 3
    /\ args_parallel = 2
    /\ \E w \in Running : wjob[w].args[6] = <<26, "%">>

\* C11: in every reachable state, serial or parallel, the sortmem
\* percentages of the jobs running at that moment sum to at most 80.
C11_RunningMemoryAtMost80 == RunningMemory <= 80

C11_TwoJobsShareAll ==
    /\ Cardinality(Running) = 2
    /\ RunningMemory = 80

\* C15: in every reachable state of the parallel scheduler the core
\* allocations of the running jobs sum to at most P and at most min(N, P)
\* jobs are running.
C15_RunningWithinBudget ==
    /\ RunningCores <= args_parallel
    /\ Cardinality(Running) <= Min(NFiles, args_parallel)

C15_AllCoresInUse ==
    /\ NFiles = 2
    /\ args_parallel = 5
    /\ Cardinality(Running) = 2
    /\ RunningCores = 5

\* C16: end signals are queued behind every real job, so whenever a worker
\* has exited normally (it got an end signal) no real job is waiting in
\* the queue.
C16_NoExitBeforeJobsTaken ==
    /\ \A k, l \in 1..Len(job_queue) :
            (k < l /\ job_queue[k].args = None) => job_queue[l].args = None
    /\ (\E w \in DOMAIN wpc : wpc[w] = "exited") => WaitingJobs = {}

C16_ExitWhileSiblingRuns ==
    /\ \E w \in DOMAIN wpc : wpc[w] = "exited"
    /\ Running # {}
    /\ WaitingJobs = {}

\* C17: every job scheduled by sortedKmersParallel gets a strictly
\* positive memory ceiling: the percentage 80 // N is at least 1 for every
\* N >= 1.
C17_PositiveCeiling ==
    SortmemSet =>
        /\ Percent(sortmem) >= 1
        /\ \A k \in WaitingJobs : Percent(job_queue[k].args[6]) >= 1

\* C12: if the lengths main derives are inconsistent (amplicon is not
\* conserved_left + diagnostic + conserved_right) or one of them is not
\* positive, main exits with an error and no extract+sort job is started.
C12_BadLengthsRejected ==
    (/\ Derived
     /\ \/ amplicon # conserved_left + diagnostic + conserved_right
        \/ amplicon <= 0
        \/ conserved_left <= 0
        \/ conserved_right <= 0
        \/ diagnostic <= 0)
    => ~JobStarted

\* C13: filterAlignments runs if and only if amplicon is strictly greater
\* than conserved_left + conserved_right; otherwise the renderer is handed
\* the merge result itself.
C13_FilterIffDiagnosticRegion ==
    /\ pc = "filtered" => amplicon > conserved_left + conserved_right
    /\ pc = "done" =>
        /\ (result = "filtered.txt") <=>
                (amplicon > conserved_left + conserved_right)
        /\ ~(amplicon > conserved_left + conserved_right) =>
                result = "merged_file.txt"

C13_RenderedUnfiltered ==
    /\ pc = "done"
    /\ amplicon = conserved_left + conserved_right
    /\ amplicon > 0
    /\ result = "merged_file.txt"

\* C14: whenever the derivation does not exit, the lengths it hands on
\* satisfy amplicon = conserved_left + diagnostic + conserved_right.
C14_ConsistentTriple ==
    Derived => amplicon = conserved_left + diagnostic + conserved_right

====
